---- MODULE Spec2Model ----
(***************************************************************************)
(* Model of the server-statistics monitor in src/main.go: the ticker loop  *)
(* of main and the fetch / split / parse / threshold steps of pollOnce.    *)
(*                                                                         *)
(* Strings are sequences of one-character strings.  Unsigned integers are  *)
(* UintBits wide and floating point numbers carry MantBits significant     *)
(* bits with round-to-nearest-even, a scaled-down uint64 / float64.        *)
(***************************************************************************)
EXTENDS Integers, Sequences, FiniteSets, TLC

(* ------------------------------ bounds -------------------------------- *)

\* width of the unsigned integers of the model (uint64 in the program)
UintBits == 24

\* significant bits of the floating point numbers (53 in float64)
MantBits == 14

(* ------------------------- program constants -------------------------- *)

loadAverageThreshold == 30

memoryUsageThreshold == 80

freeDiscSpaceThreshold == 90

networkBandwidthThreshold == 90

\* the number of fields a response line must have (main.go:78)
FieldCount == 7

\* the number of unparsable fields a cycle tolerates (main.go:115)
MaxFieldErrors == 3

\* the divisor 1024 * 1024 of main.go:140
BytesPerMB == 1048576

\* the factor 8.0 of main.go:151
BitsPerByte == 8

\* the divisor 1_000_000.0 of main.go:151
BitsPerMbit == 1000000

\* the factor 100.0 of the percentages (main.go:128, 137, 148)
Percent == 100

(* ------------------------------ integers ------------------------------ *)

Pow2(k) == 2 ^ k

\* the largest unsigned integer (math.MaxUint64 in the program)
MaxUint == Pow2(UintBits) - 1

\* a - b on unsigned integers wraps around
USub(a, b) == (a - b + Pow2(UintBits)) % Pow2(UintBits)

\* the conversion int64(u) reinterprets the bits as two's complement
ToSigned(u) == IF u >= Pow2(UintBits - 1) THEN u - Pow2(UintBits) ELSE u

\* Go's integer division truncates toward zero
Quot(x, d) == IF x >= 0 THEN x \div d ELSE -((-x) \div d)

(* ------------------------------- strings ------------------------------ *)

Digits == {"0", "1", "2", "3", "4", "5", "6", "7", "8", "9"}

DigitVal(c) ==
  CASE c = "0" -> 0 [] c = "1" -> 1 [] c = "2" -> 2 [] c = "3" -> 3
    [] c = "4" -> 4 [] c = "5" -> 5 [] c = "6" -> 6 [] c = "7" -> 7
    [] c = "8" -> 8 [] c = "9" -> 9

\* the white space strings.TrimSpace removes
IsSpace(c) == c \in {" ", "\t", "\n", "\r"}

Text == Seq(STRING)

TrimLeft[s \in Text] ==
  IF s = <<>> THEN s
  ELSE IF IsSpace(Head(s)) THEN TrimLeft[Tail(s)] ELSE s

TrimRight[s \in Text] ==
  IF s = <<>> THEN s
  ELSE IF IsSpace(s[Len(s)]) THEN TrimRight[SubSeq(s, 1, Len(s) - 1)] ELSE s

\* strings.TrimSpace
TrimSpace[s \in Text] == TrimRight[TrimLeft[s]]

\* strings.Split(s, ","): one more segment than there are commas
Split[s \in Text] ==
  IF \A i \in 1..Len(s) : s[i] # ","
  THEN <<s>>
  ELSE LET i == CHOOSE k \in 1..Len(s) :
                  s[k] = "," /\ \A j \in 1..(k - 1) : s[j] # ","
       IN  <<SubSeq(s, 1, i - 1)>> \o Split[SubSeq(s, i + 1, Len(s))]

\* a plausible slip in splitCSV: empty segments are dropped
DropEmpty[q \in Seq(Text)] ==
  IF q = <<>> THEN q
  ELSE IF Head(q) = <<>> THEN DropEmpty[Tail(q)]
  ELSE <<Head(q)>> \o DropEmpty[Tail(q)]

splitCSV_dropEmpty(s) ==
  DropEmpty[[i \in 1..Len(Split[s]) |-> TrimSpace[Split[s][i]]]]

\* splitCSV: every segment is trimmed and kept, the empty ones too
splitCSV(s) == [i \in 1..Len(Split[s]) |-> TrimSpace[Split[s][i]]]

\* strconv.ParseUint(s, 10, 64) after the empty-string test: a character that
\* is no digit is a syntax error with value 0, a value that does not fit is a
\* range error with the largest value.
ParseDigits[s \in Text, n \in Nat] ==
  IF s = <<>> THEN [val |-> n, err |-> FALSE]
  ELSE IF Head(s) \notin Digits THEN [val |-> 0, err |-> TRUE]
  ELSE IF n >= (MaxUint \div 10) + 1 THEN [val |-> MaxUint, err |-> TRUE]
  ELSE IF n * 10 + DigitVal(Head(s)) > MaxUint
       THEN [val |-> MaxUint, err |-> TRUE]
  ELSE ParseDigits[Tail(s), n * 10 + DigitVal(Head(s))]

ParseUint[s \in Text] ==
  IF s = <<>> THEN [val |-> 0, err |-> TRUE] ELSE ParseDigits[s, 0]

(* --------------------------- floating point --------------------------- *)

\* A float is m * 2^e, with 2^(MantBits-1) <= m < 2^MantBits, or zero.
Float == [m : Nat, e : Int]

FZero == [m |-> 0, e |-> 0]

\* the number of bits of n
BitLen[n \in Nat] == IF n = 0 THEN 0 ELSE 1 + BitLen[n \div 2]

\* n / 2^s rounded to the nearest integer, ties to even
RoundShift[n \in Nat, s \in Nat] ==
  IF s = 0 THEN n
  ELSE LET q == n \div Pow2(s)
           r == n % Pow2(s)
           h == Pow2(s - 1)
       IN  IF r > h \/ (r = h /\ q % 2 = 1) THEN q + 1 ELSE q

\* the float nearest to n * 2^e, n > 0
Norm[n \in Nat, e \in Int] ==
  LET l == BitLen[n]
  IN  IF l <= MantBits
      THEN [m |-> n * Pow2(MantBits - l), e |-> e - (MantBits - l)]
      ELSE LET s == l - MantBits
               q == RoundShift[n, s]
           IN  IF q = Pow2(MantBits)
               THEN [m |-> Pow2(MantBits - 1), e |-> e + s + 1]
               ELSE [m |-> q, e |-> e + s]

\* the conversion float64(n) of an unsigned integer
ToFloat[n \in Nat] == IF n = 0 THEN FZero ELSE Norm[n, 0]

FMul[a \in Float, b \in Float] ==
  IF a.m = 0 \/ b.m = 0 THEN FZero ELSE Norm[a.m * b.m, a.e + b.e]

\* a / b for b # 0
FDiv[a \in Float, b \in Float] ==
  IF a.m = 0 THEN FZero
  ELSE LET k   == IF a.m >= b.m THEN MantBits - 1 ELSE MantBits
           num == a.m * Pow2(k)
           q   == num \div b.m
           r   == num % b.m
           up  == 2 * r > b.m \/ (2 * r = b.m /\ q % 2 = 1)
       IN  Norm[IF up THEN q + 1 ELSE q, a.e - b.e - k]

\* a > b on floats that are not negative
FGt[a \in Float, b \in Float] ==
  IF a.m = 0 THEN FALSE
  ELSE IF b.m = 0 THEN TRUE
  ELSE a.e > b.e \/ (a.e = b.e /\ a.m > b.m)

(* ------------------------------ responses ----------------------------- *)

\* The field texts the endpoint answers with, one set per position of the
\* line  loadAvg,memTotal,memUsed,diskTotal,diskUsed,netCap,netUsed.
LoadTexts ==
  { <<"3","0">>, <<" ","3","1">>, <<"x">>,
    <<"9","9","9","9","9","9","9","9">> }

MemTotalTexts == { <<"0">>, <<"1","0">>, <<>> }

MemUsedTexts == { <<"8">>, <<"9">>, <<"-","1">> }

DiskTotalTexts == { <<"0">>, <<"1","5","7","2","8","6","4","0">> }

DiskUsedTexts ==
  { <<"1","4","1","5","5","7","7","6">>,      \* 90% of the total
    <<"1","4","1","5","5","7","7","7">>,      \* one byte more
    <<"1","4","5","0","0","0","0","0">>,      \* more than 1 Mb left
    <<"1","5","7","2","8","0","0","0">>,      \* less than 1 Mb left
    <<"1","6","7","7","7","2","1","5">>,      \* more than the total
    <<"1",".","5">> }

NetCapTexts == { <<"0">>, <<"1","0","0","0">> }

NetUsedTexts ==
  { <<"9","0","0">>, <<"9","5","0">>, <<"1","0","0","1">>, <<" ">> }

Join[fields \in Seq(Text)] ==
  IF Len(fields) = 0 THEN <<>>
  ELSE IF Len(fields) = 1 THEN fields[1]
  ELSE fields[1] \o <<",">> \o Join[Tail(fields)]

\* the 7-field lines, sent with the line feed that ends them
SevenFieldBodies ==
  { Join[<<a, b, c, d, e, f, g>>] \o <<"\n">> :
      a \in LoadTexts, b \in MemTotalTexts, c \in MemUsedTexts,
      d \in DiskTotalTexts, e \in DiskUsedTexts, f \in NetCapTexts,
      g \in NetUsedTexts }

\* a line all of whose fields are numbers and that breaches every threshold
AlertingLine ==
  Join[<< <<"3","1">>, <<"1","0">>, <<"9">>,
          <<"1","5","7","2","8","6","4","0">>,
          <<"1","4","5","0","0","0","0","0">>,
          <<"1","0","0","0">>, <<"9","5","0">> >>]

\* bodies with another number of comma-separated segments
OtherBodies ==
  { <<>>,                                               \* 1 segment
    <<"\n">>,
    <<"d","o","w","n">>,
    <<"3","1",",","1","0",",","9",",","1","0",",","9",",","1","0">>,
    <<"x",",",",","-",",",",",",">>,                     \* 6 segments
    AlertingLine \o <<",">>,                            \* 8, the last empty
    AlertingLine \o <<",","\n">>,
    <<",">> \o AlertingLine,                            \* 8, the first empty
    AlertingLine \o <<",","5">>,                        \* 8 numbers
    <<"x",",",",","-",",",",",",",",",",">> }           \* 8 segments

\* What one GET can come back with: the request fails (or times out), the
\* status is not 200, reading the body fails, or a body arrives.
Responses ==
  { [kind |-> "doErr", body |-> <<>>] }
    \cup { [kind |-> "badStatus", body |-> b] :
             b \in { AlertingLine \o <<"\n">>, <<"d","o","w","n">> } }
    \cup { [kind |-> "readErr", body |-> b] :
             b \in { AlertingLine \o <<"\n">>, <<"3","1",",","1">> } }
    \cup { [kind |-> "ok", body |-> b] : b \in SevenFieldBodies \cup OtherBodies }

\* one response for each way a cycle can go, for the specification with
\* fairness
SomeBodies ==
  { AlertingLine \o <<"\n">>,
    <<"3","0",",","1","0",",","8",",","1","0",",","9",",","1","0",",","9">>,
    <<"3","1",",","0",",","8",",","1","0",",","9",",","1","0",",","9">>,
    <<"3","1",",","1","0",",","9",",","0",",","9",",","1","0",",","9">>,
    <<"3","1",",","1","0",",","9",",","1","0",",","9",",","0",",","9">>,
    <<"x",",",",","-",",","1","0",",",".",",","1","0",",","9">>,
    <<"x",",","1","0",",","-",",","1","0",",",".",",","1","0",",","9">>,
    AlertingLine \o <<",">>,
    <<"d","o","w","n">> }

SomeResponses ==
  { r \in Responses : r.kind # "ok" }
    \cup { [kind |-> "ok", body |-> b] : b \in SomeBodies }

NoResp == [kind |-> "none", body |-> <<>>]

(* -------------------------------- state ------------------------------- *)

VARIABLES
  pc,        \* where main is: "select", a step of pollOnce, "report", "exited"
  ctxDone,   \* the signal context is done
  tickC,     \* the ticks waiting in ticker.C, a channel of capacity 1
  resp,      \* the answer to this cycle's GET
  bodyOpen,  \* resp.Body is open
  parts,     \* the fields of the line
  vals,      \* loadAvg, memTotal, memUsed, diskTotal, diskUsed, netCap, netUsed
  errNum,    \* the number of fields ParseUint rejected
  out,       \* the lines printed since the cycle started
  ret,       \* what pollOnce returned: "none" while it runs, "nil", "err"
  trace,     \* the steps the cycle has taken
  prevRet,   \* what the cycle before this one returned
  kept       \* an earlier cycle, remembered: its response, alerts and result

vars ==
  <<pc, ctxDone, tickC, resp, bodyOpen, parts, vals, errNum, out, ret, trace,
    prevRet, kept>>

cycleVars == <<resp, bodyOpen, parts, vals, errNum, out, ret, trace>>

loadAvg == vals[1]

memTotal == vals[2]

memUsed == vals[3]

diskTotal == vals[4]

diskUsed == vals[5]

netCap == vals[6]

netUsed == vals[7]

\* a printed line: its kind, and the integer or the float it shows
Line(kind, n, f) == [kind |-> kind, n |-> n, f |-> f]

DiagLine == Line("Diag", 0, FZero)

\* no cycle is remembered
NoKept == [resp |-> NoResp, alerts |-> <<>>, ret |-> "none"]

Init ==
  /\ pc = "select"
  /\ ctxDone = FALSE
  /\ tickC = 0
  /\ resp = NoResp
  /\ bodyOpen = FALSE
  /\ parts = <<>>
  /\ vals = <<0, 0, 0, 0, 0, 0, 0>>
  /\ errNum = 0
  /\ out = <<>>
  /\ ret = "none"
  /\ trace = <<>>
  /\ prevRet = "none"
  /\ kept = NoKept

(* ------------------------- the scheduler, the signal ------------------ *)

\* The ticker sends on ticker.C, which holds one tick; a tick that finds the
\* channel full is dropped.  ticker.Stop is deferred to the return of main.
Tick ==
  /\ pc # "exited"
  /\ tickC = 0
  /\ tickC' = 1
  /\ UNCHANGED <<pc, ctxDone, cycleVars, prevRet, kept>>

\* SIGINT or SIGTERM arrives: signal.NotifyContext closes ctx.Done().
Signal ==
  /\ pc # "exited"
  /\ ~ctxDone
  /\ ctxDone' = TRUE
  /\ UNCHANGED <<pc, tickC, cycleVars, prevRet, kept>>

(* --------------------------------- main ------------------------------- *)

\* a variant of SelectDone that ends the process wherever main is
SelectDone_anywhere ==
  /\ pc # "exited"
  /\ ctxDone
  /\ pc' = "exited"
  /\ UNCHANGED <<ctxDone, tickC, cycleVars, prevRet, kept>>

\* select, case <-ctx.Done(): return
SelectDone ==
  /\ pc = "select"
  /\ ctxDone
  /\ pc' = "exited"
  /\ UNCHANGED <<ctxDone, tickC, cycleVars, prevRet, kept>>

\* a variant of SelectTick that starts a poll on every tick, also while a
\* poll is running (as "go pollOnce(client)" would)
SelectTick_anywhere ==
  /\ pc # "exited"
  /\ tickC = 1
  /\ tickC' = 0
  /\ pc' = "do"
  /\ resp' = NoResp
  /\ bodyOpen' = FALSE
  /\ parts' = <<>>
  /\ vals' = <<0, 0, 0, 0, 0, 0, 0>>
  /\ errNum' = 0
  /\ out' = <<>>
  /\ ret' = "none"
  /\ trace' = <<>>
  /\ prevRet' = ret
  /\ UNCHANGED <<ctxDone, kept>>

\* select, case <-ticker.C: pollOnce is called.  When the context is done
\* and a tick is waiting, select takes either case.
SelectTick ==
  /\ pc = "select"
  /\ tickC = 1
  /\ tickC' = 0
  /\ pc' = "do"
  /\ resp' = NoResp
  /\ bodyOpen' = FALSE
  /\ parts' = <<>>
  /\ vals' = <<0, 0, 0, 0, 0, 0, 0>>
  /\ errNum' = 0
  /\ out' = <<>>
  /\ ret' = "none"
  /\ trace' = <<>>
  /\ prevRet' = ret
  /\ UNCHANGED <<ctxDone, kept>>

\* a variant of Report that gives up on the first failed cycle
Report_fatal ==
  /\ pc = "report"
  /\ out' = IF ret = "err" THEN Append(out, DiagLine) ELSE out
  /\ pc' = IF ret = "err" THEN "exited" ELSE "select"
  /\ UNCHANGED <<ctxDone, tickC, resp, bodyOpen, parts, vals, errNum, ret, trace,
               prevRet, kept>>

\* pollOnce has returned: an error is reported with one line, and the loop
\* goes back to its select.
Report ==
  /\ pc = "report"
  /\ out' = IF ret = "err" THEN Append(out, DiagLine) ELSE out
  /\ pc' = "select"
  /\ UNCHANGED <<ctxDone, tickC, resp, bodyOpen, parts, vals, errNum, ret, trace,
               prevRet, kept>>

(* ------------------------------- pollOnce ----------------------------- *)

\* return from pollOnce: the deferred resp.Body.Close() runs
Return(r) ==
  /\ ret' = r
  /\ bodyOpen' = FALSE
  /\ pc' = "report"

\* client.Do(req), answered with one of the responses rs: the one step that
\* waits, up to httpTimeout
DoWith(rs) ==
  /\ pc = "do"
  /\ \E r \in rs :
       /\ resp' = r
       /\ IF r.kind = "doErr"
          THEN Return("err")
          ELSE /\ pc' = "status"
               /\ bodyOpen' = TRUE
               /\ ret' = ret
  /\ trace' = Append(trace, "fetch")
  /\ UNCHANGED <<ctxDone, tickC, parts, vals, errNum, out, prevRet, kept>>

Do == DoWith(Responses)

\* the same step for the specification with fairness
DoSome == DoWith(SomeResponses)

\* a variant of CheckStatus that takes any status
CheckStatus_any ==
  /\ pc = "status"
  /\ pc' = "read"
  /\ UNCHANGED <<ctxDone, tickC, cycleVars, prevRet, kept>>

\* resp.StatusCode != http.StatusOK
CheckStatus ==
  /\ pc = "status"
  /\ IF resp.kind = "badStatus"
     THEN Return("err")
     ELSE pc' = "read" /\ UNCHANGED <<ret, bodyOpen>>
  /\ UNCHANGED <<ctxDone, tickC, resp, parts, vals, errNum, out, trace, prevRet, kept>>

\* io.ReadAll(resp.Body)
ReadBody ==
  /\ pc = "read"
  /\ IF resp.kind = "readErr"
     THEN Return("err")
     ELSE pc' = "split" /\ UNCHANGED <<ret, bodyOpen>>
  /\ UNCHANGED <<ctxDone, tickC, resp, parts, vals, errNum, out, trace, prevRet, kept>>

\* the line is trimmed and split, and must have 7 fields
SplitLine ==
  /\ pc = "split"
  /\ parts' = splitCSV(TrimSpace[resp.body])
  /\ trace' = Append(trace, "split")
  /\ IF Len(parts') # FieldCount
     THEN Return("err")
     ELSE pc' = "parse" /\ UNCHANGED <<ret, bodyOpen>>
  /\ UNCHANGED <<ctxDone, tickC, resp, vals, errNum, out, prevRet, kept>>

\* a variant of CheckOrder with the disk check before the memory check
CheckOrder_diskFirst == <<"load", "disk", "mem", "net">>

\* the order of the four threshold checks in pollOnce
CheckOrder == <<"load", "mem", "disk", "net">>

\* what follows check c: the next check, or the return nil that ends pollOnce
Advance(c) ==
  LET i == CHOOSE k \in 1..Len(CheckOrder) : CheckOrder[k] = c
  IN  IF i = Len(CheckOrder)
      THEN Return("nil")
      ELSE pc' = CheckOrder[i + 1] /\ UNCHANGED <<ret, bodyOpen>>

\* a variant of TooManyErrors that tolerates only 2 bad fields
TooManyErrors_orEqual(n) == n >= MaxFieldErrors

\* the errNum > 3 test of main.go:115
TooManyErrors(n) == n > MaxFieldErrors

\* the seven ParseUint calls, each failure counted, and the errNum test
ParseFields ==
  /\ pc = "parse"
  /\ vals' = [i \in 1..FieldCount |-> ParseUint[parts[i]].val]
  /\ errNum' = Cardinality({i \in 1..FieldCount : ParseUint[parts[i]].err})
  /\ trace' = Append(trace, "parse")
  /\ IF TooManyErrors(errNum')
     THEN Return("err")
     ELSE pc' = CheckOrder[1] /\ UNCHANGED <<ret, bodyOpen>>
  /\ UNCHANGED <<ctxDone, tickC, resp, parts, out, prevRet, kept>>

\* (float64(used) / float64(total)) * 100.0
Pct(used, total) == FMul[FDiv[ToFloat[used], ToFloat[total]], ToFloat[Percent]]

\* loadAvg > loadAverageThreshold
LoadTooHigh(load) == load > loadAverageThreshold

\* a variant of MemTooHigh that alerts on the threshold itself
MemTooHigh_orEqual(pct) == ~FGt[ToFloat[memoryUsageThreshold], pct]

\* memPct > memoryUsageThreshold
MemTooHigh(pct) == FGt[pct, ToFloat[memoryUsageThreshold]]

\* diskPct > freeDiscSpaceThreshold
DiskTooFull(pct) == FGt[pct, ToFloat[freeDiscSpaceThreshold]]

\* netPct > networkBandwidthThreshold
NetTooBusy(pct) == FGt[pct, ToFloat[networkBandwidthThreshold]]

\* a variant of FreeMB that rounds a started megabyte up
FreeMB_roundUp(total, used) ==
  Quot(ToSigned(USub(total, used)) + BytesPerMB - 1, BytesPerMB)

\* freeMB of main.go:139-140
FreeMB(total, used) == Quot(ToSigned(USub(total, used)), BytesPerMB)

\* freeMbit of main.go:150-151
FreeMbit(cap, used) ==
  FDiv[FMul[ToFloat[USub(cap, used)], ToFloat[BitsPerByte]], ToFloat[BitsPerMbit]]

\* a variant of CheckLoad that keeps the load alert back in the cycle after a
\* failed one
CheckLoad_quietAfterError ==
  /\ pc = "load"
  /\ trace' = Append(trace, "load")
  /\ out' = IF LoadTooHigh(loadAvg) /\ prevRet # "err"
            THEN Append(out, Line("Load", loadAvg, FZero))
            ELSE out
  /\ Advance("load")
  /\ UNCHANGED <<ctxDone, tickC, resp, parts, vals, errNum, prevRet, kept>>

\* 1) Load Average
CheckLoad ==
  /\ pc = "load"
  /\ trace' = Append(trace, "load")
  /\ out' = IF LoadTooHigh(loadAvg)
            THEN Append(out, Line("Load", loadAvg, FZero))
            ELSE out
  /\ Advance("load")
  /\ UNCHANGED <<ctxDone, tickC, resp, parts, vals, errNum, prevRet, kept>>

\* a variant of CheckMem without the guard: a zero total counts as 0% used
CheckMem_noGuard ==
  /\ pc = "mem"
  /\ trace' = Append(trace, "mem")
  /\ out' = IF memTotal # 0 /\ MemTooHigh(Pct(memUsed, memTotal))
            THEN Append(out, Line("Memory", 0, Pct(memUsed, memTotal)))
            ELSE out
  /\ Advance("mem")
  /\ UNCHANGED <<ctxDone, tickC, resp, parts, vals, errNum, prevRet, kept>>

\* 2) Memory usage
CheckMem ==
  /\ pc = "mem"
  /\ trace' = Append(trace, "mem")
  /\ IF memTotal = 0
     THEN Return("err") /\ out' = out
     ELSE /\ out' = IF MemTooHigh(Pct(memUsed, memTotal))
                    THEN Append(out, Line("Memory", 0, Pct(memUsed, memTotal)))
                    ELSE out
          /\ Advance("mem")
  /\ UNCHANGED <<ctxDone, tickC, resp, parts, vals, errNum, prevRet, kept>>

\* 3) Disk usage
CheckDisk ==
  /\ pc = "disk"
  /\ trace' = Append(trace, "disk")
  /\ IF diskTotal = 0
     THEN Return("err") /\ out' = out
     ELSE /\ out' = IF DiskTooFull(Pct(diskUsed, diskTotal))
                    THEN Append(out, Line("Disk", FreeMB(diskTotal, diskUsed), FZero))
                    ELSE out
          /\ Advance("disk")
  /\ UNCHANGED <<ctxDone, tickC, resp, parts, vals, errNum, prevRet, kept>>

\* a variant of CheckNet without the guard: a zero capacity counts as 0% used
CheckNet_noGuard ==
  /\ pc = "net"
  /\ trace' = Append(trace, "net")
  /\ out' = IF netCap # 0 /\ NetTooBusy(Pct(netUsed, netCap))
            THEN Append(out, Line("Network", 0, FreeMbit(netCap, netUsed)))
            ELSE out
  /\ Advance("net")
  /\ UNCHANGED <<ctxDone, tickC, resp, parts, vals, errNum, prevRet, kept>>

\* a variant of CheckNet that tests netCap after the alert: with a zero
\* capacity the percentage is +Inf, or NaN when netUsed is zero too
CheckNet_guardLast ==
  /\ pc = "net"
  /\ trace' = Append(trace, "net")
  /\ out' = IF \/ netCap = 0 /\ netUsed # 0
               \/ netCap # 0 /\ NetTooBusy(Pct(netUsed, netCap))
            THEN Append(out, Line("Network", 0, FreeMbit(netCap, netUsed)))
            ELSE out
  /\ IF netCap = 0 THEN Return("err") ELSE Advance("net")
  /\ UNCHANGED <<ctxDone, tickC, resp, parts, vals, errNum, prevRet, kept>>

\* 4) Network usage
CheckNet ==
  /\ pc = "net"
  /\ trace' = Append(trace, "net")
  /\ IF netCap = 0
     THEN Return("err") /\ out' = out
     ELSE /\ out' = IF NetTooBusy(Pct(netUsed, netCap))
                    THEN Append(out, Line("Network", 0, FreeMbit(netCap, netUsed)))
                    ELSE out
          /\ Advance("net")
  /\ UNCHANGED <<ctxDone, tickC, resp, parts, vals, errNum, prevRet, kept>>

(* --------------------------- the specification ------------------------ *)

Next ==
  \/ Tick
  \/ Signal
  \/ SelectDone
  \/ SelectTick
  \/ Do
  \/ CheckStatus
  \/ ReadBody
  \/ SplitLine
  \/ ParseFields
  \/ CheckLoad
  \/ CheckMem
  \/ CheckDisk
  \/ CheckNet
  \/ Report

Spec == Init /\ [][Next]_vars

\* The same program, answered with SomeResponses.
LiveNext ==
  \/ Tick
  \/ Signal
  \/ SelectDone
  \/ SelectTick
  \/ DoSome
  \/ CheckStatus
  \/ ReadBody
  \/ SplitLine
  \/ ParseFields
  \/ CheckLoad
  \/ CheckMem
  \/ CheckDisk
  \/ CheckNet
  \/ Report

\* the steps of main and pollOnce
Step ==
  \/ SelectTick
  \/ DoSome
  \/ CheckStatus
  \/ ReadBody
  \/ SplitLine
  \/ ParseFields
  \/ CheckLoad
  \/ CheckMem
  \/ CheckDisk
  \/ CheckNet
  \/ Report

\* Every step of a running cycle is taken (client.Do returns within
\* httpTimeout), and a select that finds ctx.Done() ready again and again
\* takes that case in the end: select picks among its ready cases at random.
LiveSpec == Init /\ [][LiveNext]_vars /\ WF_vars(Step) /\ SF_vars(SelectDone)

(* ------------------------ vocabulary of the claims -------------------- *)

AlertKinds == {"Load", "Memory", "Disk", "Network"}

\* an alert of kind k has been printed in this cycle
HasAlert(k) == \E i \in 1..Len(out) : out[i].kind = k

NoAlert == \A i \in 1..Len(out) : out[i].kind \notin AlertKinds

\* the cycle has taken step st
Did(st) == \E i \in 1..Len(trace) : trace[i] = st

\* a threshold check has been evaluated in this cycle
Evaluated == Did("load") \/ Did("mem") \/ Did("disk") \/ Did("net")

\* pollOnce has returned
Ended == ret # "none"

\* how often x occurs in sequence q
Count(q, x) == Cardinality({i \in 1..Len(q) : q[i] = x})

\* the number of comma-separated segments of a text
Segments(b) == 1 + Count(b, ",")

\* the fields of the response line and how many of them ParseUint rejects
LineFields == splitCSV(TrimSpace[resp.body])

Rejected(fields) == {i \in 1..Len(fields) : ParseUint[fields[i]].err}

\* the decimal value of a text of digits, of any size
NatValue[s \in Text] ==
  IF s = <<>> THEN 0
  ELSE 10 * NatValue[SubSeq(s, 1, Len(s) - 1)] + DigitVal(s[Len(s)])

(* --------------------------------- C1 --------------------------------- *)

\* C1: in a cycle that reaches the threshold checks and has memTotal,
\* diskTotal and netCap nonzero, once it has returned, each alert has been
\* printed if and only if its value (the percentages as the program computes
\* them, in floating point) is strictly greater than its threshold: load > 30,
\* memory > 80, disk > 90, network > 90.  A value equal to its threshold
\* prints nothing.
C1_StrictThresholds ==
  (Ended /\ Evaluated /\ memTotal # 0 /\ diskTotal # 0 /\ netCap # 0) =>
    /\ HasAlert("Load") <=> loadAvg > 30
    /\ HasAlert("Memory") <=>
         FGt[FMul[FDiv[ToFloat[memUsed], ToFloat[memTotal]], ToFloat[100]],
             ToFloat[80]]
    /\ HasAlert("Disk") <=>
         FGt[FMul[FDiv[ToFloat[diskUsed], ToFloat[diskTotal]], ToFloat[100]],
             ToFloat[90]]
    /\ HasAlert("Network") <=>
         FGt[FMul[FDiv[ToFloat[netUsed], ToFloat[netCap]], ToFloat[100]],
             ToFloat[90]]

\* every value sits exactly on its threshold and the cycle printed nothing
C1_Witness ==
  /\ ret = "nil"
  /\ loadAvg = 30
  /\ Pct(memUsed, memTotal) = ToFloat[80]
  /\ Pct(diskUsed, diskTotal) = ToFloat[90]
  /\ Pct(netUsed, netCap) = ToFloat[90]
  /\ out = <<>>

(* --------------------------------- C2 --------------------------------- *)

\* C2: once the fields are parsed, a zero memTotal means that no memory, disk
\* or network alert is printed and the disk and network checks are never
\* evaluated; a zero diskTotal (memTotal nonzero) means no disk or network
\* alert and no network check; a zero netCap means no network alert.  A cycle
\* that reached the threshold checks with one of the three at zero returns an
\* error.
C2_ZeroDenominator ==
  Did("parse") =>
    /\ memTotal = 0 =>
         /\ ~HasAlert("Memory") /\ ~HasAlert("Disk") /\ ~HasAlert("Network")
         /\ ~Did("disk") /\ ~Did("net")
    /\ diskTotal = 0 =>
         /\ ~HasAlert("Disk") /\ ~HasAlert("Network")
         /\ ~Did("net")
    /\ netCap = 0 => ~HasAlert("Network")
    /\ (Ended /\ Evaluated /\ (memTotal = 0 \/ diskTotal = 0 \/ netCap = 0))
         => ret = "err"

\* a cycle stopped by the memory guard: the memory check ran, with memTotal
\* zero, and the cycle returned an error
C2_Witness ==
  /\ Did("mem")
  /\ memTotal = 0
  /\ ret = "err"

(* --------------------------------- C3 --------------------------------- *)

\* C3: once the 7 fields of a line are parsed, the cycle goes on to the
\* threshold checks if and only if at most 3 of them were rejected; with 4 or
\* more rejected it has returned an error, no check was evaluated and no alert
\* printed.
C3_ErrorBudget ==
  Did("parse") =>
    LET failed == Cardinality(Rejected(parts))
    IN  /\ failed <= 3 => (pc = "load" \/ Evaluated)
        /\ failed >= 4 => (ret = "err" /\ ~Evaluated /\ NoAlert)

\* exactly 3 fields were rejected and the thresholds were checked
C3_Witness ==
  /\ Did("parse")
  /\ Cardinality(Rejected(parts)) = 3
  /\ Did("net")
  /\ ret = "nil"

(* --------------------------------- C4 --------------------------------- *)

\* C4: a body that does not have exactly 7 comma-separated segments, the
\* empty ones counted, makes the cycle return an error at the split: no field
\* is parsed, no threshold checked, no alert printed.
C4_FieldCount ==
  (Did("split") /\ Segments(resp.body) # 7) =>
    /\ ret = "err"
    /\ ~Did("parse")
    /\ ~Evaluated
    /\ NoAlert

\* a body of 8 segments, one of them empty, was refused
C4_Witness ==
  /\ Did("split")
  /\ Segments(resp.body) = 8
  /\ \E i \in 1..Len(parts) : parts[i] = <<>>
  /\ ret = "err"

(* --------------------------------- C5 --------------------------------- *)

\* C5: once the 7 fields are parsed, errNum is the number of fields that were
\* rejected, every field that was accepted has the value its digits spell and
\* every field that was rejected has the value 0.
C5_TolerantParse ==
  Did("parse") =>
    /\ errNum = Cardinality(Rejected(parts))
    /\ \A i \in 1..Len(parts) :
         IF i \in Rejected(parts)
         THEN vals[i] = 0
         ELSE vals[i] = NatValue[parts[i]]

(* --------------------------------- C6 --------------------------------- *)

\* C6: a cycle that has returned returned nil exactly when the fetch gave a
\* body with status OK, the line has 7 segments, at most 3 of its fields were
\* rejected and memTotal, diskTotal and netCap are nonzero; how many alerts
\* were printed plays no part.
C6_SuccessExactly ==
  Ended =>
    ( ret = "nil" <=>
        /\ resp.kind = "ok"
        /\ Segments(resp.body) = 7
        /\ Cardinality(Rejected(LineFields)) <= 3
        /\ memTotal # 0
        /\ diskTotal # 0
        /\ netCap # 0 )

\* a cycle that printed all four alerts and returned nil
C6_Witness ==
  /\ ret = "nil"
  /\ Len(out) = 4
  /\ \A k \in AlertKinds : HasAlert(k)

(* --------------------------------- C7 --------------------------------- *)

Rank(k) ==
  CASE k = "Load" -> 1 [] k = "Memory" -> 2 [] k = "Disk" -> 3
    [] k = "Network" -> 4 [] OTHER -> 5

\* C7: of any two alert lines of a cycle, the one printed first is of the
\* earlier kind in the order Load, Memory, Disk, Network.
C7_AlertOrder ==
  \A i, j \in 1..Len(out) :
    (i < j /\ out[i].kind \in AlertKinds /\ out[j].kind \in AlertKinds)
      => Rank(out[i].kind) < Rank(out[j].kind)

\* the four alerts, printed in one cycle
C7_Witness ==
  /\ Len(out) >= 4
  /\ out[1].kind = "Load"
  /\ out[2].kind = "Memory"
  /\ out[3].kind = "Disk"
  /\ out[4].kind = "Network"

(* --------------------------------- C8 --------------------------------- *)

DiagCount == Cardinality({i \in 1..Len(out) : out[i].kind = "Diag"})

\* C8: a cycle that returned an error has, once main has handled the result,
\* exactly one diagnostic line, printed last; main is then back at its select
\* (or has returned on the signal), where a waiting tick can start the next
\* poll; and main has returned only if the signal was received.
C8_ErrorReported ==
  /\ DiagCount <= 1
  /\ (ret = "err" /\ pc # "report") =>
       /\ DiagCount = 1
       /\ out[Len(out)] = DiagLine
       /\ pc \in {"select", "exited"}
  /\ pc = "exited" => ctxDone
  /\ (pc = "select" /\ tickC = 1) => ENABLED SelectTick

\* after a cycle that failed, the next tick has started a poll
C8_Witness ==
  /\ prevRet = "err"
  /\ Did("fetch")
  /\ ~ctxDone

(* --------------------------------- C9 --------------------------------- *)

FailedFetch == resp.kind \in {"doErr", "badStatus", "readErr"}

\* C9: a cycle fetches once; when the request fails, the status is not OK or
\* the body cannot be read, the fetch is the only step the cycle takes: it
\* splits and parses nothing, checks no threshold, prints no alert, and
\* returns an error as soon as the failure is seen.
C9_SingleFetch ==
  /\ Count(trace, "fetch") <= 1
  /\ Ended => Count(trace, "fetch") = 1
  /\ FailedFetch =>
       /\ trace = <<"fetch">>
       /\ NoAlert
       /\ parts = <<>>
       /\ resp.kind = "doErr" => ret = "err"
       /\ resp.kind = "badStatus" => (ret = "err" \/ pc = "status")
       /\ resp.kind = "readErr" => (ret = "err" \/ pc \in {"status", "read"})

\* a response with a bad status, whose body is a line that breaches every
\* threshold, ended the cycle with an error
C9_Witness ==
  /\ resp.kind = "badStatus"
  /\ resp.body = AlertingLine \o <<"\n">>
  /\ ret = "err"
  /\ pc = "select"

(* --------------------------------- C10 -------------------------------- *)

\* C10: main returns only after the signal, and then no cycle is in flight
\* and no response body is open; once the signal has been received, main
\* returns in the end.
C10_ExitAfterSignal ==
  /\ [](pc = "exited" => (ctxDone /\ ~bodyOpen /\ (Ended \/ trace = <<>>)))
  /\ (ctxDone ~> pc = "exited")

\* main has returned after at least one cycle
C10_Witness ==
  /\ pc = "exited"
  /\ Ended

(* --------------------------------- C11 -------------------------------- *)

\* pollOnce is running: it was called and has not returned
InFlight == pc \notin {"select", "report", "exited"}

\* C11: a tick is taken from ticker.C, and a poll cycle started, only while
\* main waits at its select, when the cycle before (if any) has returned, its
\* body is closed and its result has been handled; a tick that becomes due
\* while a cycle is running only waits in ticker.C and leaves the cycle as it
\* is.
C11_OneCycleAtATime ==
  [][ /\ (tickC = 1 /\ tickC' = 0) =>
           /\ pc = "select"
           /\ pc' = "do"
           /\ Ended \/ trace = <<>>
           /\ ~bodyOpen
      /\ (InFlight /\ tickC' # tickC) =>
           /\ tickC' = 1
           /\ UNCHANGED <<pc, cycleVars>> ]_vars

\* a tick is due while the second cycle is running
C11_Witness ==
  /\ InFlight
  /\ tickC = 1
  /\ prevRet # "none"

(* --------------------------------- C12 -------------------------------- *)

\* the alert lines among the lines q, in the order printed
Alerts(q) == SelectSeq(q, LAMBDA l : l.kind \in AlertKinds)

\* Between two cycles the cycle that has just ended is remembered, in place of
\* the one remembered before.
Keep ==
  /\ pc = "select"
  /\ Ended
  /\ kept # [resp |-> resp, alerts |-> Alerts(out), ret |-> ret]
  /\ kept' = [resp |-> resp, alerts |-> Alerts(out), ret |-> ret]
  /\ UNCHANGED <<pc, ctxDone, tickC, cycleVars, prevRet>>

PairNext == LiveNext \/ Keep

\* The program answered with SomeResponses, with any one of its earlier
\* cycles remembered.
PairSpec == Init /\ [][PairNext]_vars

\* C12: a cycle that has returned after the same response (the outcome of the
\* request, the status, the body) as a remembered earlier cycle has printed
\* the same alert lines in the same order and returned the same result,
\* whatever the cycles in between returned.
C12_SameResponseSameOutcome ==
  (Ended /\ kept # NoKept /\ resp = kept.resp) =>
    /\ Alerts(out) = kept.alerts
    /\ ret = kept.ret

\* the remembered cycle printed alerts and returned nil; after a cycle that
\* failed, a third cycle got the response of the remembered one and returned
C12_Witness ==
  /\ kept.ret = "nil"
  /\ kept.alerts # <<>>
  /\ prevRet = "err"
  /\ resp = kept.resp
  /\ Ended

(* --------------------------------- C13 -------------------------------- *)

\* C13: the number n on a disk alert line is the whole-number quotient of the
\* free bytes by 1,048,576: n megabytes fit into the free bytes and n + 1 do
\* not, so less than one megabyte is shown as 0.  The free bytes are
\* diskTotal - diskUsed as the program holds it, a signed 64-bit number, which
\* is the plain difference whenever diskUsed is at most diskTotal; when it is
\* negative the quotient is rounded toward zero.
C13_WholeMegabytes ==
  \A i \in 1..Len(out) :
    out[i].kind = "Disk" =>
      LET free == ToSigned(USub(diskTotal, diskUsed))
          n    == out[i].n
      IN  /\ diskUsed <= diskTotal => free = diskTotal - diskUsed
          /\ free >= 0 =>
                /\ n >= 0
                /\ n * 1048576 <= free
                /\ free < (n + 1) * 1048576
          /\ free < 0 =>
                /\ n <= 0
                /\ n * 1048576 >= free
                /\ free > (n - 1) * 1048576

\* a disk alert for a disk with some bytes free, but less than a megabyte:
\* the line shows 0
C13_Witness ==
  /\ diskUsed < diskTotal
  /\ diskTotal - diskUsed < 1048576
  /\ \E i \in 1..Len(out) : out[i].kind = "Disk" /\ out[i].n = 0

(* --------------------------------- C14 -------------------------------- *)

\* C14, as claimed: a cycle that has returned an error has printed no alert
\* line.
C14_ErrorMeansNoAlert == ret = "err" => NoAlert

\* the check at which the cycle stopped
LastStep == trace[Len(trace)]

\* C14, amended: a cycle that returned an error before the threshold checks
\* has printed no alert line.  A cycle that returned an error from a threshold
\* check was stopped by the zero-denominator guard of the memory, disk or
\* network check; it has printed no alert of that check or of a later one,
\* and of each check before the guard it has printed the alert exactly when
\* that check's threshold was exceeded.
C14_AlertsBeforeGuard ==
  ret = "err" =>
    /\ ~Evaluated => NoAlert
    /\ Evaluated =>
          /\ \/ LastStep = "mem" /\ memTotal = 0
             \/ LastStep = "disk" /\ diskTotal = 0
             \/ LastStep = "net" /\ netCap = 0
          /\ ~HasAlert("Network")
          /\ HasAlert("Load") <=> loadAvg > 30
          /\ IF LastStep = "mem"
             THEN ~HasAlert("Memory")
             ELSE HasAlert("Memory") <=>
                    FGt[FMul[FDiv[ToFloat[memUsed], ToFloat[memTotal]],
                             ToFloat[100]], ToFloat[80]]
          /\ IF LastStep \in {"mem", "disk"}
             THEN ~HasAlert("Disk")
             ELSE HasAlert("Disk") <=>
                    FGt[FMul[FDiv[ToFloat[diskUsed], ToFloat[diskTotal]],
                             ToFloat[100]], ToFloat[90]]

\* the load, memory and disk alerts were printed and then the network guard
\* returned an error
C14_Witness ==
  /\ ret = "err"
  /\ netCap = 0
  /\ Did("net")
  /\ HasAlert("Load")
  /\ HasAlert("Memory")
  /\ HasAlert("Disk")

(* --------------------------------- C15 -------------------------------- *)

\* C15: when a disk alert is printed, the free bytes computed for it,
\* int64(diskTotal - diskUsed), are not negative and not more than diskTotal;
\* when a network alert is printed, the free rate computed for it,
\* netCap - netUsed, is not negative and not more than netCap.
C15_RemainingInRange ==
  /\ HasAlert("Disk") =>
       LET freeBytes == ToSigned(USub(diskTotal, diskUsed))
       IN  0 <= freeBytes /\ freeBytes <= diskTotal
  /\ HasAlert("Network") =>
       LET freeBytesPerSec == USub(netCap, netUsed)
       IN  0 <= freeBytesPerSec /\ freeBytesPerSec <= netCap

(* --------------------------------- C16 -------------------------------- *)

\* C16: once the signal context is done, main never again takes a tick at its
\* select and calls pollOnce.
C16_NoPollAfterSignal ==
  [][ctxDone => ~(pc = "select" /\ pc' = "do")]_vars

====
